---- MODULE Spec2Model ----
(***************************************************************************)
(* Model of the multi-agent question answering system:                     *)
(*   agents.py  retry_with_backoff, analyze_question, answer_*_question    *)
(*   graph.py   create_graph (the routing graph)                           *)
(*   main.py    parse_response, process_question, the conversation graph   *)
(* Strings are sequences of one-character strings, so that strip, lower,   *)
(* split, startswith and replace are computed character by character.      *)
(***************************************************************************)
EXTENDS Integers, Sequences, FiniteSets, TLC

VARIABLES
    rs,         \* the running retry_with_backoff invocation (its locals)
    pc,         \* position of the program: node of either graph, or idle
    conv,       \* UserInput state of the conversation graph
    state,      \* AgentState of the routing graph (absent keys are not in DOMAIN)
    invoked,    \* nodes of the routing graph invoked in the current run, with their input
    history,    \* finished retry_with_backoff invocations of the current run
    error,      \* the exception that left main(), or NoError
    displayed,  \* structured responses printed so far
    turns,      \* number of inputs read so far
    pr,         \* the running parse_response activation (its locals)
    other       \* a retry_with_backoff invocation of another caller (its locals)

vars == <<rs, pc, conv, state, invoked, history, error, displayed, turns, pr, other>>

(***************************************************************************)
(* Bounds of the model                                                     *)
(***************************************************************************)
MaxRetriesBound == 4
MaxInitialDelay == 2
MaxTurns == 2
MaxClassifierWords == 2
MaxParseWords == 5
MaxDetails == 2
MaxLines == 4

(***************************************************************************)
(* Program constants                                                       *)
(***************************************************************************)
DefaultMaxRetries == 3
DefaultInitialDelay == 1

(***************************************************************************)
(* Strings                                                                 *)
(***************************************************************************)
S_code == <<"c", "o", "d", "e">>
S_general == <<"g", "e", "n", "e", "r", "a", "l">>
S_q_upper == <<"Q">>

S_q == <<"q">>

UpperCase == <<"A", "B", "C", "D", "E", "F", "G", "H", "I", "J", "K", "L", "M",
               "N", "O", "P", "Q", "R", "S", "T", "U", "V", "W", "X", "Y", "Z">>
LowerCase == <<"a", "b", "c", "d", "e", "f", "g", "h", "i", "j", "k", "l", "m",
               "n", "o", "p", "q", "r", "s", "t", "u", "v", "w", "x", "y", "z">>

\* The characters str.strip() removes.
Whitespace == {" ", "\n", "\t", "\r"}

LowerChar(c) ==
    IF \E i \in 1..Len(UpperCase) : UpperCase[i] = c
    THEN LowerCase[CHOOSE i \in 1..Len(UpperCase) : UpperCase[i] = c]
    ELSE c

\* str.lower()
lower(s) == [i \in 1..Len(s) |-> LowerChar(s[i])]

RECURSIVE lstrip(_)
lstrip(s) ==
    IF s # <<>> /\ Head(s) \in Whitespace THEN lstrip(Tail(s)) ELSE s

RECURSIVE rstrip(_)
rstrip(s) ==
    IF s # <<>> /\ s[Len(s)] \in Whitespace
    THEN rstrip(SubSeq(s, 1, Len(s) - 1))
    ELSE s

\* str.strip()
strip(s) == rstrip(lstrip(s))

\* str.startswith(prefix)
startswith(s, prefix) ==
    /\ Len(s) >= Len(prefix)
    /\ SubSeq(s, 1, Len(prefix)) = prefix

RECURSIVE Pow2(_)
Pow2(n) == IF n <= 0 THEN 1 ELSE 2 * Pow2(n - 1)

(***************************************************************************)
(* Values                                                                  *)
(***************************************************************************)
None == [none |-> TRUE]
NoError == "NoError"
FailureKinds == {"OverloadedError", "AuthenticationError", "Exception"}

\* What one call of func() does: it returns a value or raises.
Returns(v) == [kind |-> "ok", value |-> v]
Raises(e) == [kind |-> e, value |-> None]

\* The values the bare operation of a stand-alone executor invocation returns.
OperationValues == {[content |-> <<"r", "1">>], [content |-> <<"r", "2">>]}

(***************************************************************************)
(* retry_with_backoff (agents.py)                                          *)
(***************************************************************************)
BackoffDelayShifted(initial_delay, attempt) == initial_delay * Pow2(attempt + 1)

BackoffDelayGlobalAttempt(initial_delay, attempt) ==
    initial_delay * Pow2(attempt + other.attempt)

\* delay = initial_delay * (2 ** attempt)
BackoffDelay(initial_delay, attempt) == initial_delay * Pow2(attempt)

IsLastAttemptOffByOne(attempt, max_retries) == attempt = max_retries

\* if attempt == max_retries - 1: raise e
IsLastAttempt(attempt, max_retries) == attempt = max_retries - 1

IsRetryableAnyButAuthentication(kind) == kind # "AuthenticationError"

\* OverloadedError is the only exception the loop goes on after.
IsRetryable(kind) == kind = "OverloadedError"

\* The locals of a fresh invocation of retry_with_backoff(func, max_retries, initial_delay).
RetryStart(func, max_retries, initial_delay) ==
    [func |-> func, max_retries |-> max_retries, initial_delay |-> initial_delay,
     attempt |-> 0, calls |-> <<>>, sleeps |-> <<>>, delay |-> 0,
     status |-> "running", result |-> None, raised |-> NoError]

NoInvocation ==
    [func |-> "", max_retries |-> 0, initial_delay |-> 0,
     attempt |-> 0, calls |-> <<>>, sleeps |-> <<>>, delay |-> 0,
     status |-> "idle", result |-> None, raised |-> NoError]

\* One iteration of the for loop whose call of func() had outcome out.
AttemptOutcome(r, out) ==
    LET called == [r EXCEPT !.calls = Append(r.calls, out)] IN
    IF out.kind = "ok"
    THEN [called EXCEPT !.status = "returned", !.result = out.value]
    ELSE IF IsRetryable(out.kind) /\ ~IsLastAttempt(r.attempt, r.max_retries)
    THEN [called EXCEPT !.status = "sleeping",
                        !.delay = BackoffDelay(r.initial_delay, r.attempt)]
    ELSE [called EXCEPT !.status = "raised", !.raised = out.kind]

\* range(max_retries) is exhausted: the function body ends without a return.
LoopExhausted(r) == [r EXCEPT !.status = "returned", !.result = None]

SleepDoneNoAdvance(r) ==
    [r EXCEPT !.status = "running", !.sleeps = Append(r.sleeps, r.delay)]

\* time.sleep(delay), then the next iteration.
SleepDone(r) ==
    [r EXCEPT !.status = "running", !.sleeps = Append(r.sleeps, r.delay),
              !.attempt = r.attempt + 1]

(***************************************************************************)
(* parse_response (main.py)                                                *)
(***************************************************************************)
MAIN_ANSWER == <<"M", "A", "I", "N", "_", "A", "N", "S", "W", "E", "R", ":">>
SUPPORTING_DETAILS ==
    <<"S", "U", "P", "P", "O", "R", "T", "I", "N", "G", "_",
      "D", "E", "T", "A", "I", "L", "S", ":">>
Dash == <<"-">>
Newline == <<"\n">>

\* str.replace(old, new): every non-overlapping occurrence, left to right.
RECURSIVE replace(_, _, _)
replace(s, old, new) ==
    IF s = <<>> THEN <<>>
    ELSE IF startswith(s, old)
    THEN new \o replace(SubSeq(s, Len(old) + 1, Len(s)), old, new)
    ELSE <<Head(s)>> \o replace(Tail(s), old, new)

\* str.split(sep) for a one-character sep: empty pieces are kept.
RECURSIVE split(_, _)
split(s, sep) ==
    IF \E i \in 1..Len(s) : s[i] = sep
    THEN LET i == CHOOSE j \in 1..Len(s) :
                      s[j] = sep /\ \A k \in 1..(j - 1) : s[k] # sep
         IN  <<SubSeq(s, 1, i - 1)>> \o split(SubSeq(s, i + 1, Len(s)), sep)
    ELSE <<s>>

\* content = response_text.content if hasattr(response_text, 'content')
\*           else str(response_text)
ContentOf(response_text) ==
    IF "content" \in DOMAIN response_text
    THEN response_text.content
    ELSE response_text.str

\* getattr(response_text, name, default)
getattr(response_text, name, default) ==
    IF name \in DOMAIN response_text THEN response_text[name] ELSE default

InitialResultNoneDefaults(response_text) ==
    [content |-> [main_answer |-> <<>>, supporting_details |-> <<>>],
     metadata |-> [response_id |-> getattr(response_text, "id", "None"),
                   model |-> getattr(response_text, "model", "None"),
                   run_id |-> getattr(response_text, "run_id", "None"),
                   stop_reason |-> getattr(response_text, "stop_reason", "None"),
                   token_usage |-> getattr(response_text, "usage", <<>>)]]

\* The result structure before the loop.
InitialResult(response_text) ==
    [content |-> [main_answer |-> <<>>, supporting_details |-> <<>>],
     metadata |-> [response_id |-> getattr(response_text, "id", ""),
                   model |-> getattr(response_text, "model", ""),
                   run_id |-> getattr(response_text, "run_id", ""),
                   stop_reason |-> getattr(response_text, "stop_reason", ""),
                   token_usage |-> getattr(response_text, "usage", <<>>)]]

\* result["content"]["main_answer"] = line.replace("MAIN_ANSWER:", "").strip()
MainAnswerOf(line) == strip(replace(line, MAIN_ANSWER, <<>>))

\* line[1:].strip()
DetailOf(line) == strip(Tail(line))

IsDetailLineAnySection(line, current_section) == startswith(line, Dash)

\* The test of the third branch of the loop body.
IsDetailLine(line, current_section) ==
    startswith(line, Dash) /\ current_section = "supporting_details"

ParseLineKeepFirst(p, raw_line) ==
    LET line == strip(raw_line) IN
    IF line = <<>> THEN p
    ELSE IF startswith(line, MAIN_ANSWER)
    THEN [p EXCEPT !.current_section = "main_answer",
                   !.result.content.main_answer =
                       IF @ = <<>> THEN MainAnswerOf(line) ELSE @]
    ELSE IF startswith(line, SUPPORTING_DETAILS)
    THEN [p EXCEPT !.current_section = "supporting_details"]
    ELSE IF IsDetailLine(line, p.current_section)
    THEN [p EXCEPT !.result.content.supporting_details = Append(@, DetailOf(line))]
    ELSE p

ParseLineBlankEndsList(p, raw_line) ==
    LET line == strip(raw_line) IN
    IF line = <<>> THEN [p EXCEPT !.current_section = "None"]
    ELSE IF startswith(line, MAIN_ANSWER)
    THEN [p EXCEPT !.current_section = "main_answer",
                   !.result.content.main_answer = MainAnswerOf(line)]
    ELSE IF startswith(line, SUPPORTING_DETAILS)
    THEN [p EXCEPT !.current_section = "supporting_details"]
    ELSE IF IsDetailLine(line, p.current_section)
    THEN [p EXCEPT !.result.content.supporting_details = Append(@, DetailOf(line))]
    ELSE p

\* One iteration of "for line in lines" on the locals p = [current_section, result].
ParseLine(p, raw_line) ==
    LET line == strip(raw_line) IN
    IF line = <<>> THEN p
    ELSE IF startswith(line, MAIN_ANSWER)
    THEN [p EXCEPT !.current_section = "main_answer",
                   !.result.content.main_answer = MainAnswerOf(line)]
    ELSE IF startswith(line, SUPPORTING_DETAILS)
    THEN [p EXCEPT !.current_section = "supporting_details"]
    ELSE IF IsDetailLine(line, p.current_section)
    THEN [p EXCEPT !.result.content.supporting_details = Append(@, DetailOf(line))]
    ELSE p

\* lines = content.strip().split('\n')
LinesOf(response_text) == split(strip(ContentOf(response_text)), "\n")

RECURSIVE ParseLines(_, _)
ParseLines(p, lines) ==
    IF lines = <<>> THEN p ELSE ParseLines(ParseLine(p, Head(lines)), Tail(lines))

\* The whole function.
parse_response(response_text) ==
    ParseLines([current_section |-> "None", result |-> InitialResult(response_text)],
               LinesOf(response_text)).result

NoParse ==
    [response |-> None, lines |-> <<>>, idx |-> 0, current_section |-> "None",
     result |-> InitialResult(None), status |-> "idle", given |-> None]

\* The locals of parse_response(response_text) when the loop starts.
ParseStart(response_text, given) ==
    [response |-> response_text, lines |-> LinesOf(response_text), idx |-> 0,
     current_section |-> "None", result |-> InitialResult(response_text),
     status |-> "loop", given |-> given]

(***************************************************************************)
(* The remote model (chain.invoke) and the inputs                          *)
(***************************************************************************)
RECURSIVE Concat(_)
Concat(ws) == IF ws = <<>> THEN <<>> ELSE Head(ws) \o Concat(Tail(ws))

SeqsUpTo(S, n) == UNION {[1..k -> S] : k \in 0..n}

\* Texts the model may answer the classification prompt with: up to
\* MaxClassifierWords of these words, one after the other.
ClassifierWords ==
    {S_code, <<"C", "o", "d", "e">>, S_general, <<"G", "E", "N", "E", "R", "A", "L">>,
     <<" ">>, <<"\n">>, <<".">>}

ClassifierTexts == {Concat(ws) : ws \in SeqsUpTo(ClassifierWords, MaxClassifierWords)}

\* Texts the model may answer a responder prompt with.
AnswerTexts ==
    {<<"M", "A", "I", "N", "_", "A", "N", "S", "W", "E", "R", ":", " ", "X", "\n",
       "S", "U", "P", "P", "O", "R", "T", "I", "N", "G", "_", "D", "E", "T", "A", "I", "L", "S", ":", "\n",
       "-", " ", "a", "\n", "-", " ", "b">>,
     <<"n", "o", " ", "i", "d", "e", "a">>}

\* The AIMessage the chain returns.
AIMessage(content) == [content |-> content, id |-> "msg_1"]

Questions == {<<"h", "o", "w", "?">>, <<"Q", "2">>}

\* What the user may type at the prompt.
Inputs == Questions \cup {<<"q">>, <<"Q">>}

\* The outcomes the closure func can have, by the node that built it.
FuncOutcomes(func) ==
    {Raises(e) : e \in FailureKinds} \cup
    {Returns(v) : v \in
        CASE func = "analyze" -> {AIMessage(t) : t \in ClassifierTexts}
          [] func \in {"code_agent", "generic_agent"} -> {AIMessage(t) : t \in AnswerTexts}
          [] OTHER -> OperationValues}

RetryIterate ==
    /\ rs.status = "running"
    /\ IF rs.attempt >= rs.max_retries
       THEN rs' = LoopExhausted(rs)
       ELSE \E out \in FuncOutcomes(rs.func) : rs' = AttemptOutcome(rs, out)
    /\ UNCHANGED <<pc, conv, state, invoked, history, error, displayed, turns, pr, other>>

RetrySleep ==
    /\ rs.status = "sleeping"
    /\ rs' = SleepDone(rs)
    /\ UNCHANGED <<pc, conv, state, invoked, history, error, displayed, turns, pr, other>>

(***************************************************************************)
(* A stand-alone invocation of retry_with_backoff with any parameters      *)
(***************************************************************************)
InitRetry ==
    /\ \E m \in 0..MaxRetriesBound, d \in 1..MaxInitialDelay :
          rs = RetryStart("operation", m, d)
    /\ pc = "retry"
    /\ conv = [input |-> <<>>, continue_conversation |-> TRUE]
    /\ state = <<>>
    /\ invoked = <<>>
    /\ history = <<>>
    /\ error = NoError
    /\ displayed = <<>>
    /\ turns = 0
    /\ pr = NoParse
    /\ other = NoInvocation

NextRetry == RetryIterate \/ RetrySleep

SpecRetry == InitRetry /\ [][NextRetry]_vars

(***************************************************************************)
(* The routing graph (graph.py)                                            *)
(***************************************************************************)
END == "END"
EntryPointCodeAgent == "code_agent"

\* set_entry_point("analyze")
EntryPoint == "analyze"
Handlers == {"code_agent", "generic_agent"}
Nodes == {"analyze"} \cup Handlers

PathMapSwapped == (S_code :> "generic_agent") @@ (S_general :> "code_agent")

\* The path map of the conditional edges leaving "analyze".
PathMap == (S_code :> "code_agent") @@ (S_general :> "generic_agent")

EdgeFromChained(node) == IF node = "code_agent" THEN "generic_agent" ELSE END

\* add_edge(node, END) of the two responders.
EdgeFrom(node) == END

\* decision = response.content.strip().lower()
DecisionNoLower(response) == strip(response.content)

Decision(response) == lower(strip(response.content))

\* A node starts: each of the three node functions builds its chain and calls
\* retry_with_backoff(invoke_chain) with the default parameters.
NodeStarts(node, st) ==
    /\ pc' = node
    /\ invoked' = Append(invoked, [node |-> node, input |-> st.input])
    /\ rs' = RetryStart(node, DefaultMaxRetries, DefaultInitialDelay)

Finished(r) ==
    [func |-> r.func, calls |-> r.calls, sleeps |-> r.sleeps, status |-> r.status,
     max_retries |-> r.max_retries]

PropagatesGeneric(e) ==
    /\ pc' = "raised"
    /\ error' = "Exception"
    /\ rs' = NoInvocation

\* An exception leaves graph.invoke, process_question, the conversation graph and main().
Propagates(e) ==
    /\ pc' = "raised"
    /\ error' = e
    /\ rs' = NoInvocation

(***************************************************************************)
(* The conversation graph (main.py)                                        *)
(***************************************************************************)
\* get_user_input and the conditional edge that follows it.
GetUserInput ==
    /\ pc = "get_input"
    /\ turns < MaxTurns
    /\ \E user_input \in Inputs :
          LET continue_conversation == lower(user_input) # S_q IN
          /\ conv' = [input |-> user_input,
                      continue_conversation |-> continue_conversation]
          /\ pc' = IF continue_conversation THEN "process_question" ELSE END
    /\ turns' = turns + 1
    /\ UNCHANGED <<rs, state, invoked, history, error, displayed, pr, other>>

\* process_question up to graph.invoke({"input": state["input"]}): the run starts
\* at the entry point.
ProcessQuestion ==
    /\ pc = "process_question"
    /\ state' = [input |-> conv.input]
    /\ history' = <<>>
    /\ NodeStarts(EntryPoint, [input |-> conv.input]) 
    /\ UNCHANGED <<conv, error, displayed, turns, pr, other>>

\* analyze_question returns {"decision", "input"}; the conditional edge looks the
\* decision up in the path map.  The path map has no entry for any other token and
\* graph.py handles no miss: the graph library either raises the mapping's KeyError
\* or ends the run with no responder scheduled.
AnalyzeReturns ==
    /\ pc = "analyze"
    /\ rs.status = "returned"
    /\ history' = Append(history, Finished(rs))
    /\ IF rs.result = None
       THEN /\ Propagates("AttributeError")
            /\ UNCHANGED <<state, invoked>>
       ELSE LET decision == Decision(rs.result)
                st == [decision |-> decision, input |-> state.input] @@ state
            IN  /\ state' = st
                /\ IF decision \in DOMAIN PathMap
                   THEN /\ NodeStarts(PathMap[decision], st)
                        /\ error' = error
                   ELSE \/ /\ Propagates("KeyError(decision)")
                           /\ invoked' = invoked
                        \/ /\ pc' = "format"
                           /\ rs' = NoInvocation
                           /\ UNCHANGED <<invoked, error>>
    /\ UNCHANGED <<conv, displayed, turns, pr, other>>

\* A responder returns {"output": response}; its edge leads to END.
HandlerReturns ==
    /\ pc \in Handlers
    /\ rs.status = "returned"
    /\ history' = Append(history, Finished(rs))
    /\ LET st == [output |-> rs.result] @@ state IN
       /\ state' = st
       /\ IF EdgeFrom(pc) = END
          THEN /\ pc' = "format"
               /\ rs' = NoInvocation
               /\ invoked' = invoked
          ELSE NodeStarts(EdgeFrom(pc), st)
    /\ UNCHANGED <<conv, error, displayed, turns, pr, other>>

\* retry_with_backoff raised inside a node: nothing catches it.
NodeRaises ==
    /\ pc \in Nodes
    /\ rs.status = "raised"
    /\ history' = Append(history, Finished(rs))
    /\ Propagates(rs.raised)
    /\ UNCHANGED <<conv, state, invoked, displayed, turns, pr, other>>

\* process_question after graph.invoke: parse_response(result["output"]), print,
\* return state; the edge leads back to get_input.
FormatAndDisplay ==
    /\ pc = "format"
    /\ IF "output" \in DOMAIN state
       THEN /\ displayed' = Append(displayed, [input |-> conv.input, response |-> parse_response(state.output)])
            /\ pc' = "get_input"
            /\ state' = <<>>
            /\ invoked' = <<>>
            /\ history' = <<>>
            /\ UNCHANGED <<rs, error>>
       ELSE /\ Propagates("KeyError('output')")
            /\ UNCHANGED <<state, invoked, history, displayed>>
    /\ UNCHANGED <<conv, turns, pr, other>>

\* main(): conversation_graph.invoke({"input": "", "continue_conversation": True})
Init ==
    /\ rs = NoInvocation
    /\ pc = "get_input"
    /\ conv = [input |-> <<>>, continue_conversation |-> TRUE]
    /\ state = <<>>
    /\ invoked = <<>>
    /\ history = <<>>
    /\ error = NoError
    /\ displayed = <<>>
    /\ turns = 0
    /\ pr = NoParse
    /\ other = NoInvocation

Next ==
    \/ GetUserInput
    \/ ProcessQuestion
    \/ RetryIterate
    \/ RetrySleep
    \/ AnalyzeReturns
    \/ HandlerReturns
    \/ NodeRaises
    \/ FormatAndDisplay

Spec == Init /\ [][Next]_vars

\* The steps of one run of the routing graph.  The interpreter runs them one after
\* the other: a call of func() returns or raises, time.sleep returns, a node that
\* has its result hands it to the graph.
RunStep == RetryIterate \/ RetrySleep \/ AnalyzeReturns \/ HandlerReturns \/ NodeRaises

\* One run on its own: process_question has just been entered with a question.
InitRun ==
    /\ \E q \in Questions : conv = [input |-> q, continue_conversation |-> TRUE]
    /\ pc = "process_question"
    /\ turns = 1
    /\ rs = NoInvocation
    /\ state = <<>>
    /\ invoked = <<>>
    /\ history = <<>>
    /\ error = NoError
    /\ displayed = <<>>
    /\ pr = NoParse
    /\ other = NoInvocation

NextRun == ProcessQuestion \/ RunStep \/ FormatAndDisplay

SpecRun == InitRun /\ [][NextRun]_vars /\ WF_vars(RunStep)

(***************************************************************************)
(* Invocations of retry_with_backoff one after the other and side by side  *)
(***************************************************************************)
\* attempt and delay are locals of the call: every invocation has its own.  One
\* caller invokes the executor with any parameters and then, as a node of the
\* routing graph does after the node before it, again with the defaults; another
\* caller's invocation runs beside them.
InitRetryPair ==
    /\ \E m \in 0..MaxRetriesBound, d \in 1..MaxInitialDelay :
          rs = RetryStart("operation", m, d)
    /\ other = RetryStart("operation", DefaultMaxRetries, DefaultInitialDelay)
    /\ pc = "retry"
    /\ conv = [input |-> <<>>, continue_conversation |-> TRUE]
    /\ state = <<>>
    /\ invoked = <<>>
    /\ history = <<>>
    /\ error = NoError
    /\ displayed = <<>>
    /\ turns = 0
    /\ pr = NoParse

OtherIterate ==
    /\ other.status = "running"
    /\ IF other.attempt >= other.max_retries
       THEN other' = LoopExhausted(other)
       ELSE \E out \in FuncOutcomes(other.func) : other' = AttemptOutcome(other, out)
    /\ UNCHANGED <<rs, pc, conv, state, invoked, history, error, displayed, turns, pr>>

OtherSleep ==
    /\ other.status = "sleeping"
    /\ other' = SleepDone(other)
    /\ UNCHANGED <<rs, pc, conv, state, invoked, history, error, displayed, turns, pr>>

\* The first invocation is over; the caller invokes the executor again.
RetryAgain ==
    /\ rs.status \in {"returned", "raised"}
    /\ history = <<>>
    /\ history' = Append(history, Finished(rs))
    /\ rs' = RetryStart("operation", DefaultMaxRetries, DefaultInitialDelay)
    /\ UNCHANGED <<pc, conv, state, invoked, error, displayed, turns, pr, other>>

NextRetryPair == RetryIterate \/ RetrySleep \/ OtherIterate \/ OtherSleep \/ RetryAgain

SpecRetryPair == InitRetryPair /\ [][NextRetryPair]_vars

(***************************************************************************)
(* parse_response on its own, one loop iteration per step                  *)
(***************************************************************************)
\* Texts made of up to MaxParseWords of these words.
ParseWords == {MAIN_ANSWER, SUPPORTING_DETAILS, Dash, <<" ">>, <<"a">>, Newline}

WordTexts == {Concat(ws) : ws \in SeqsUpTo(ParseWords, MaxParseWords)}

\* Values of the fields of a well-formed text: one line each, no surrounding whitespace.
FieldValues ==
    {<<>>, <<"X">>, <<"a", " ", "b">>, <<"-", "c">>,
     <<"u", " ">> \o MAIN_ANSWER \o <<" ", "v">>}

RECURSIVE RenderDetails(_)
RenderDetails(ds) ==
    IF ds = <<>> THEN <<>>
    ELSE Newline \o Dash \o <<" ">> \o Head(ds) \o RenderDetails(Tail(ds))

\* "MAIN_ANSWER: a", "SUPPORTING_DETAILS:", then one line "- d" per detail.
Render(a, ds) ==
    MAIN_ANSWER \o <<" ">> \o a \o Newline \o SUPPORTING_DETAILS \o RenderDetails(ds)

Fields(a, ds) == [main_answer |-> a, supporting_details |-> ds]

\* Lines a model answer may consist of; a text is up to MaxLines of them.
LineSet ==
    {MAIN_ANSWER \o <<" ", "X">>,
     MAIN_ANSWER \o <<"Y">>,
     SUPPORTING_DETAILS,
     <<"-", " ", "a">>,
     <<" ", "-", "b">>,
     <<" ">>,
     <<"n", "o", "t", "e">>,
     MAIN_ANSWER \o <<"M", "A", "I", "N", "_">> \o MAIN_ANSWER
         \o <<"A", "N", "S", "W", "E", "R", ":", "x">>}

RECURSIVE Join(_)
Join(ls) ==
    IF ls = <<>> THEN <<>>
    ELSE IF Len(ls) = 1 THEN Head(ls)
    ELSE Head(ls) \o Newline \o Join(Tail(ls))

LineTexts == {Join(ls) : ls \in SeqsUpTo(LineSet, MaxLines)}

\* Raw responses of every shape: a plain object whose str() is the text, an object
\* with content only, and a message with every metadata attribute.
ShortTexts == {Join(ls) : ls \in SeqsUpTo(LineSet, 1)}

BareObject(text) == [str |-> text]

ContentOnly(text) == [content |-> text]

FullMessage(text) ==
    [content |-> text, id |-> "msg_1", model |-> "claude-3-sonnet-20240229",
     run_id |-> "run_1", stop_reason |-> "end_turn",
     usage |-> [input_tokens |-> 10, output_tokens |-> 20]]

InitParse ==
    /\ \/ \E t \in WordTexts : pr = ParseStart(AIMessage(t), None)
       \/ \E a \in FieldValues, ds \in SeqsUpTo(FieldValues, MaxDetails) :
             pr = ParseStart(AIMessage(Render(a, ds)), Fields(a, ds))
       \/ \E t \in LineTexts : pr = ParseStart(AIMessage(t), None)
       \/ \E t \in ShortTexts :
             \E r \in {BareObject(t), ContentOnly(t), FullMessage(t)} :
                pr = ParseStart(r, None)
    /\ rs = NoInvocation
    /\ pc = "parse"
    /\ conv = [input |-> <<>>, continue_conversation |-> TRUE]
    /\ state = <<>>
    /\ invoked = <<>>
    /\ history = <<>>
    /\ error = NoError
    /\ displayed = <<>>
    /\ turns = 0
    /\ other = NoInvocation

\* The next iteration of "for line in lines".
ParseNextLine ==
    /\ pr.status = "loop"
    /\ pr.idx < Len(pr.lines)
    /\ LET p == ParseLine([current_section |-> pr.current_section, result |-> pr.result],
                          pr.lines[pr.idx + 1])
       IN  pr' = [pr EXCEPT !.idx = pr.idx + 1,
                            !.current_section = p.current_section,
                            !.result = p.result]
    /\ UNCHANGED <<rs, pc, conv, state, invoked, history, error, displayed, turns, other>>

\* The loop is over: return result.
ParseReturn ==
    /\ pr.status = "loop"
    /\ pr.idx = Len(pr.lines)
    /\ pr' = [pr EXCEPT !.status = "returned"]
    /\ UNCHANGED <<rs, pc, conv, state, invoked, history, error, displayed, turns, other>>

NextParse == ParseNextLine \/ ParseReturn

SpecParse == InitParse /\ [][NextParse]_vars

(***************************************************************************)
(* Properties                                                              *)
(***************************************************************************)
Last(s) == s[Len(s)]
Count(node) == Cardinality({i \in 1..Len(invoked) : invoked[i].node = node})
InRun == pc \in Nodes \cup {"format", "raised"}
KindsOf(calls) == [i \in 1..Len(calls) |-> calls[i].kind]
AllOverloaded(calls) == \A i \in 1..Len(calls) : calls[i].kind = "OverloadedError"

\* C1: in one run of the routing graph analyze_question is invoked exactly once and
\* at most one responder is invoked, at most once; never both responders.
C1_OneClassifierAtMostOneHandler ==
    /\ Count("analyze") <= 1
    /\ InRun => Count("analyze") = 1
    /\ Count("code_agent") + Count("generic_agent") <= 1

C1_Witness ==
    /\ pc = "format"
    /\ "output" \in DOMAIN state
    /\ Count("analyze") = 1
    /\ Count("code_agent") = 1

\* C2: a decision "code" leads to answer_code_question and a decision "general" to
\* answer_generic_question, and the responder gets the question the classifier got,
\* which is the question process_question was given.
C2_DispatchByDecision ==
    ("decision" \in DOMAIN state /\ state.decision \in {S_code, S_general}) =>
        /\ Len(invoked) = 2
        /\ invoked[1].node = "analyze"
        /\ invoked[2].node =
              (IF state.decision = S_code THEN "code_agent" ELSE "generic_agent")
        /\ invoked[2].input = conv.input
        /\ invoked[1].input = conv.input
        /\ pc \in {invoked[2].node, "format", "raised"}

C2_Witness ==
    /\ pc = "generic_agent"
    /\ state.decision = S_general
    /\ invoked[2] = [node |-> "generic_agent", input |-> <<"Q", "2">>]
    /\ rs.status = "returned"

\* C3 (as claimed): for a decision outside {"code", "general"} the run ends in a
\* failure raised by the routing itself, with no responder invoked; it never
\* completes without an output.
C3_RoutingMissIsRaised ==
    ("decision" \in DOMAIN state /\ state.decision \notin {S_code, S_general}) =>
        /\ pc = "raised"
        /\ error = "KeyError(decision)"
        /\ Count("code_agent") + Count("generic_agent") = 0

\* C4: after k overloads and a success on call k+1 the executor returns that call's
\* value after exactly k sleeps of initial_delay * 2^0 .. initial_delay * 2^(k-1),
\* in that order; with max_retries = 3, initial_delay = 1, k = 2 they are 1 then 2.
C4_SuccessAfterBackoff ==
    (rs.status = "returned" /\ rs.calls # <<>> /\ Last(rs.calls).kind = "ok") =>
        LET k == Len(rs.calls) - 1 IN
        /\ k < rs.max_retries
        /\ AllOverloaded(SubSeq(rs.calls, 1, k))
        /\ rs.result = Last(rs.calls).value
        /\ rs.sleeps = [i \in 1..k |-> rs.initial_delay * 2^(i - 1)]
        /\ (rs.max_retries = 3 /\ rs.initial_delay = 1 /\ k = 2) => rs.sleeps = <<1, 2>>

C4_Witness ==
    /\ rs.status = "returned"
    /\ rs.max_retries = 3
    /\ rs.initial_delay = 1
    /\ KindsOf(rs.calls) = <<"OverloadedError", "OverloadedError", "ok">>
    /\ rs.sleeps = <<1, 2>>

\* C5: when all max_retries >= 1 calls are overloaded the executor raises the
\* overload of the last call after exactly max_retries calls and max_retries - 1
\* sleeps; it never calls the operation more than max_retries times.
C5_ExhaustionRaises ==
    /\ Len(rs.calls) <= rs.max_retries
    /\ (rs.max_retries >= 1 /\ Len(rs.calls) = rs.max_retries /\ AllOverloaded(rs.calls)) =>
          /\ rs.status = "raised"
          /\ rs.raised = "OverloadedError"
          /\ Len(rs.sleeps) = rs.max_retries - 1

C5_Witness ==
    /\ rs.status = "raised"
    /\ rs.max_retries = 3
    /\ KindsOf(rs.calls) = <<"OverloadedError", "OverloadedError", "OverloadedError">>
    /\ rs.sleeps = <<1, 2>>

\* C6: a failure other than an overload, at whatever call it occurs, is raised at
\* that call: it is the last call, and no sleep follows it.
C6_OnlyOverloadRetried ==
    \A i \in 1..Len(rs.calls) :
        rs.calls[i].kind \in {"AuthenticationError", "Exception"} =>
            /\ i = Len(rs.calls)
            /\ rs.status = "raised"
            /\ rs.raised = rs.calls[i].kind
            /\ Len(rs.sleeps) = i - 1

C6_Witness ==
    /\ rs.status = "raised"
    /\ rs.max_retries = 4
    /\ KindsOf(rs.calls) = <<"OverloadedError", "Exception">>
    /\ Len(rs.sleeps) = 1

\* C7: a responder is invoked only after analyze_question has returned in the same
\* run, and a run whose classifier call raised invokes no responder.
C7_HandlerOnlyAfterClassifier ==
    /\ \A i \in 1..Len(invoked) :
          invoked[i].node \in Handlers =>
              /\ i > 1
              /\ invoked[1].node = "analyze"
              /\ Len(history) >= 1
              /\ history[1].func = "analyze"
              /\ history[1].status = "returned"
              /\ "decision" \in DOMAIN state
    /\ (Len(history) >= 1 /\ history[1].func = "analyze" /\ history[1].status = "raised") =>
          Count("code_agent") + Count("generic_agent") = 0

C7_Witness ==
    /\ pc = "raised"
    /\ Len(history) = 1
    /\ history[1].func = "analyze"
    /\ history[1].status = "raised"
    /\ Len(history[1].calls) = 3
    /\ Len(invoked) = 1

\* The marker a raw line is, if any, and the most recent marker among lines[1..i].
MarkerOf(raw_line) ==
    LET line == strip(raw_line) IN
    IF startswith(line, MAIN_ANSWER) THEN "main_answer"
    ELSE IF startswith(line, SUPPORTING_DETAILS) THEN "supporting_details"
    ELSE "None"

RECURSIVE LastMarker(_, _)
LastMarker(lines, i) ==
    IF i = 0 THEN "None"
    ELSE IF MarkerOf(lines[i]) # "None" THEN MarkerOf(lines[i])
    ELSE LastMarker(lines, i - 1)

\* C8 (as claimed): the text "MAIN_ANSWER: a", "SUPPORTING_DETAILS:", "- d1" .. "- dn"
\* parses to main_answer = a and supporting_details = [d1, .., dn], for every a and d.
C8_WellFormedParsed ==
    (pr.status = "returned" /\ pr.given # None) => pr.result.content = pr.given

\* C9: a line beginning with "-" changes nothing unless the most recent marker line
\* before it is SUPPORTING_DETAILS:, and a detail is appended only by such a line
\* after such a marker.
C9_DashOnlyInDetails ==
    [][pr'.idx = pr.idx + 1 =>
          LET line == strip(pr.lines[pr.idx + 1])
              marker == LastMarker(pr.lines, pr.idx)
          IN  /\ (startswith(line, Dash) /\ marker # "supporting_details") =>
                     pr'.result = pr.result
              /\ pr'.result.content.supporting_details # pr.result.content.supporting_details =>
                     /\ startswith(line, Dash)
                     /\ marker = "supporting_details"
                     /\ pr'.result.content.main_answer = pr.result.content.main_answer
                     /\ Len(pr'.result.content.supporting_details) =
                           Len(pr.result.content.supporting_details) + 1]_vars

C9_Witness ==
    /\ pr.idx = 3
    /\ MarkerOf(pr.lines[1]) = "supporting_details"
    /\ MarkerOf(pr.lines[2]) = "main_answer"
    /\ startswith(strip(pr.lines[3]), Dash)
    /\ pr.current_section = "main_answer"
    /\ pr.result.content.supporting_details = <<>>

\* C10 (as claimed): a line beginning with MAIN_ANSWER: sets main_answer to the text
\* after that leading prefix, trimmed, whatever the line contains.
C10_MainAnswerIsRemainder ==
    (pr.idx >= 1 /\ startswith(strip(pr.lines[pr.idx]), MAIN_ANSWER)) =>
        LET line == strip(pr.lines[pr.idx]) IN
        pr.result.content.main_answer =
            strip(SubSeq(line, Len(MAIN_ANSWER) + 1, Len(line)))

\* The indices of the MAIN_ANSWER: lines among lines[1..i].
MainLines(lines, i) == {j \in 1..i : MarkerOf(lines[j]) = "main_answer"}

Max(S) == CHOOSE x \in S : \A y \in S : y <= x

\* C11: with more than one MAIN_ANSWER: line, main_answer is the value set by the
\* last of them alone, wherever SUPPORTING_DETAILS: and "-" lines stand; the values
\* of earlier lines are overwritten.
C11_LastMainAnswerWins ==
    LET seen == MainLines(pr.lines, pr.idx) IN
    Cardinality(seen) >= 2 =>
        pr.result.content.main_answer = MainAnswerOf(strip(pr.lines[Max(seen)]))

C11_Witness ==
    /\ pr.status = "returned"
    /\ pr.lines = <<MAIN_ANSWER \o <<" ", "X">>, SUPPORTING_DETAILS,
                    <<"-", " ", "a">>, MAIN_ANSWER \o <<"Y">>>>
    /\ pr.result.content = Fields(<<"Y">>, <<<<"a">>>>)

\* C12 (as claimed): rendering the parsed content as "MAIN_ANSWER: <main_answer>",
\* "SUPPORTING_DETAILS:" and one "- <detail>" line per detail, and parsing that text
\* again, gives the same content, for the content parsed from any text.
C12_ReparseIsIdentity ==
    pr.status = "returned" =>
        LET r == pr.result.content IN
        parse_response(AIMessage(Render(r.main_answer, r.supporting_details))).content = r

\* The value of metadata field key, read from attribute attr of the raw response.
MetadataIs(key, attr, empty) ==
    /\ attr \in DOMAIN pr.response => pr.result.metadata[key] = pr.response[attr]
    /\ attr \notin DOMAIN pr.response => pr.result.metadata[key] = empty

\* C13: parse_response has no failure path: for a raw response with or without a
\* content attribute and with or without metadata attributes, the loop goes through
\* every line and returns, the lines are those of the content (or of str(response)), the record has
\* exactly the keys content {main_answer, supporting_details} and metadata
\* {response_id, model, run_id, stop_reason, token_usage}, each absent metadata
\* attribute gives "" (token_usage: the empty mapping), and a text with no marker
\* line gives main_answer "" and supporting_details [].
C13_NoFailurePath ==
    pr.status # "idle" =>
        /\ pr.status = "loop" => pr.idx <= Len(pr.lines)
        /\ pr.status = "returned" => pr.idx = Len(pr.lines)
        /\ Join(pr.lines) =
              strip(IF "content" \in DOMAIN pr.response
                    THEN pr.response.content ELSE pr.response.str)
        /\ DOMAIN pr.result = {"content", "metadata"}
        /\ DOMAIN pr.result.content = {"main_answer", "supporting_details"}
        /\ DOMAIN pr.result.metadata =
              {"response_id", "model", "run_id", "stop_reason", "token_usage"}
        /\ MetadataIs("response_id", "id", "")
        /\ MetadataIs("model", "model", "")
        /\ MetadataIs("run_id", "run_id", "")
        /\ MetadataIs("stop_reason", "stop_reason", "")
        /\ MetadataIs("token_usage", "usage", <<>>)
        /\ (\A i \in 1..Len(pr.lines) : MarkerOf(pr.lines[i]) = "None") =>
              pr.result.content = Fields(<<>>, <<>>)

C13_Witness ==
    /\ pr.status = "returned"
    /\ pr.response = BareObject(<<"n", "o", "t", "e">>)
    /\ pr.lines = <<<<"n", "o", "t", "e">>>>
    /\ pr.result.content = Fields(<<>>, <<>>)
    /\ pr.result.metadata =
          [response_id |-> "", model |-> "", run_id |-> "", stop_reason |-> "",
           token_usage |-> <<>>]

\* C14: a failure raised by retry_with_backoff inside analyze_question or inside a
\* responder is the failure func raised last; once the node has raised, the run and
\* the session have ended with that same failure, nothing further can happen, and
\* for that question nothing was displayed (only the earlier questions were).
C14_FailuresPropagate ==
    /\ rs.status = "raised" =>
          /\ pc \in Nodes
          /\ rs.raised = Last(rs.calls).kind
          /\ rs.raised \in FailureKinds
    /\ (history # <<>> /\ Last(history).status = "raised") =>
          /\ pc = "raised"
          /\ error = Last(Last(history).calls).kind
          /\ Last(history).func = Last(invoked).node
          /\ Len(displayed) = turns - 1
          /\ ~ ENABLED Next

C14_Witness ==
    /\ pc = "raised"
    /\ Len(history) = 2
    /\ Last(history).func \in Handlers
    /\ KindsOf(Last(history).calls) = <<"OverloadedError", "AuthenticationError">>
    /\ error = "AuthenticationError"
    /\ turns = 2
    /\ Len(displayed) = 1

\* The case variants of "code" and of "general", letter by letter.
CodeLetters == <<{"c", "C"}, {"o", "O"}, {"d", "D"}, {"e", "E"}>>
GeneralLetters ==
    <<{"g", "G"}, {"e", "E"}, {"n", "N"}, {"e", "E"}, {"r", "R"}, {"a", "A"}, {"l", "L"}>>

IsVariant(text, letters) ==
    /\ Len(text) = Len(letters)
    /\ \A k \in 1..Len(text) : text[k] \in letters[k]

\* text with a leading and b trailing whitespace characters removed, nothing but
\* whitespace removed and no whitespace left at either end.
IsTrimmed(text, a, b) ==
    /\ a + b <= Len(text)
    /\ \A i \in 1..a : text[i] \in Whitespace
    /\ \A i \in (Len(text) - b + 1)..Len(text) : text[i] \in Whitespace
    /\ a + b < Len(text) =>
          text[a + 1] \notin Whitespace /\ text[Len(text) - b] \notin Whitespace

\* C15: the decision analyze_question returns is the model's text with surrounding
\* whitespace trimmed and letters lower-cased, whatever it is; every case variant of
\* "code" or "general" with surrounding whitespace starts the matching responder,
\* and for any other text no responder starts.
C15_DecisionIsTrimmedLowered ==
    (history # <<>> /\ history[1].status = "returned") =>
        LET text == Last(history[1].calls).value.content IN
        /\ "decision" \in DOMAIN state
        /\ \E a \in 0..Len(text), b \in 0..Len(text) :
              /\ IsTrimmed(text, a, b)
              /\ Len(state.decision) = Len(text) - a - b
              /\ \A k \in 1..Len(state.decision) :
                    /\ \A i \in 1..Len(UpperCase) : state.decision[k] # UpperCase[i]
                    /\ state.decision[k] = LowerChar(text[a + k])
              /\ LET mid == SubSeq(text, a + 1, Len(text) - b) IN
                 /\ IsVariant(mid, CodeLetters) =>
                       /\ state.decision = S_code
                       /\ Len(invoked) = 2 /\ invoked[2].node = "code_agent"
                 /\ IsVariant(mid, GeneralLetters) =>
                       /\ state.decision = S_general
                       /\ Len(invoked) = 2 /\ invoked[2].node = "generic_agent"
                 /\ ~ (IsVariant(mid, CodeLetters) \/ IsVariant(mid, GeneralLetters)) =>
                       Len(invoked) = 1

C15_Witness ==
    /\ pc = "code_agent"
    /\ Len(history) = 1
    /\ Last(history[1].calls).value.content = <<"C", "o", "d", "e", "\n">>
    /\ state.decision = S_code

\* The step consumes a line and leaves the section and both content fields as they were.
LineLeavesAllUnchanged ==
    /\ pr'.current_section = pr.current_section
    /\ pr'.result = pr.result

BeginsWithNoMarker(line) ==
    /\ ~ startswith(line, MAIN_ANSWER)
    /\ ~ startswith(line, SUPPORTING_DETAILS)
    /\ ~ startswith(line, Dash)

IsBlank(line) == \A i \in 1..Len(line) : line[i] \in Whitespace

\* C17 (as claimed): a blank line, and a line that begins with none of MAIN_ANSWER:,
\* SUPPORTING_DETAILS: or "-", leaves the current section, main_answer and
\* supporting_details unchanged.
C17_UnmarkedLineIgnored ==
    [][(pr.status = "loop" /\ pr'.idx = pr.idx + 1) =>
          LET line == pr.lines[pr.idx + 1] IN
          (IsBlank(line) \/ BeginsWithNoMarker(line)) => LineLeavesAllUnchanged]_vars

\* C17 (amended): a blank line, and a line that after trimming its surrounding
\* whitespace begins with none of MAIN_ANSWER:, SUPPORTING_DETAILS: or "-", leaves
\* the current section, main_answer and supporting_details unchanged; a "-" line
\* (after trimming) whose nearest marker line above is SUPPORTING_DETAILS: is
\* appended, whatever blank or unmarked lines lie between.
C17_TrimmedUnmarkedLineIgnored ==
    [][(pr.status = "loop" /\ pr'.idx = pr.idx + 1) =>
          LET line == pr.lines[pr.idx + 1] IN
          /\ (IsBlank(line) \/ BeginsWithNoMarker(strip(line))) => LineLeavesAllUnchanged
          /\ (startswith(strip(line), Dash)
                /\ LastMarker(pr.lines, pr.idx) = "supporting_details") =>
                Len(pr'.result.content.supporting_details) =
                    Len(pr.result.content.supporting_details) + 1]_vars

C17_Witness ==
    /\ pr.status = "returned"
    /\ pr.lines = <<SUPPORTING_DETAILS, <<"-", " ", "a">>, <<" ">>, <<" ", "-", "b">>>>
    /\ pr.result.content = Fields(<<>>, <<<<"a">>, <<"b">>>>)

Sentinels == {<<"q">>, <<"Q">>}

C18_SessionState ==
    /\ \A i \in 1..Len(displayed) : displayed[i].input \notin Sentinels
    /\ pc = "get_input" => Len(displayed) = turns
    /\ pc = END =>
          /\ conv.input \in Sentinels
          /\ Len(displayed) = turns - 1
          /\ invoked = <<>>
          /\ ~ ENABLED Next
    /\ pc \in Nodes \cup {"process_question", "format", "raised"} =>
          /\ conv.input \notin Sentinels
          /\ Len(displayed) = turns - 1
    /\ pc \in Nodes \cup {"format"} =>
          /\ Count("analyze") = 1
          /\ invoked[1].input = conv.input
    /\ pc = "raised" => ~ ENABLED Next

\* What reading an input and displaying a response do.
C18_SessionStep ==
    /\ turns' # turns =>
          /\ pc = "get_input"
          /\ turns' = turns + 1
          /\ displayed' = displayed
          /\ pc' = IF conv'.input \in Sentinels THEN END ELSE "process_question"
    /\ displayed' # displayed =>
          /\ pc = "format" /\ pc' = "get_input"
          /\ Len(displayed') = turns
          /\ displayed' = Append(displayed, Last(displayed'))
          /\ Last(displayed').input = conv.input
          /\ Last(displayed').response = parse_response(Last(history).calls[Len(Last(history).calls)].value)

RECURSIVE Sum(_)
Sum(xs) == IF xs = <<>> THEN 0 ELSE Head(xs) + Sum(Tail(xs))

\* The executor invocations of the current run: the finished ones and the running one.
RunInvocations == history \o (IF rs.status = "idle" THEN <<>> ELSE <<Finished(rs) @@ rs>>)

C19_RunBounds ==
    LET invs == RunInvocations IN
    /\ Len(invs) <= 2
    /\ \A i \in 1..Len(invs) :
          /\ Len(invs[i].calls) <= 3
          /\ Len(invs[i].sleeps) <= 2
          /\ Sum(invs[i].sleeps) <= 1 + 2
          /\ invs[i].func = (IF i = 1 THEN "analyze" ELSE Last(invoked).node)
    /\ Sum([i \in 1..Len(invs) |-> Len(invs[i].calls)]) <= 6
    /\ Sum([i \in 1..Len(invs) |-> Sum(invs[i].sleeps)]) <= 6

\* C19: with the default parameters, and every call of func and every sleep
\* returning, a run of the routing graph ends (in END or in a failure) after at most
\* 3 calls and 2 sleeps (1 + 2 seconds) by the classifier's executor invocation and
\* as many by the one responder's: at most 6 calls and 6 seconds per question.
C19_RunTerminatesWithinBounds ==
    /\ []C19_RunBounds
    /\ (pc \in Nodes) ~> (pc \in {"format", "raised"})

C19_Witness ==
    /\ pc = "raised"
    /\ Len(history) = 2
    /\ Len(history[1].calls) = 3 /\ history[1].sleeps = <<1, 2>>
    /\ Len(history[2].calls) = 3 /\ history[2].sleeps = <<1, 2>>
    /\ error = "OverloadedError"

\* C20 (as claimed): for every max_retries, a normal return of retry_with_backoff
\* is the value returned by a successful call of func made during the invocation;
\* it never returns without having called func.
C20_ReturnIsFuncResult ==
    rs.status = "returned" =>
        /\ rs.calls # <<>>
        /\ Last(rs.calls).kind = "ok"
        /\ rs.result = Last(rs.calls).value

\* attempt, delay and the sleeps of invocation r as its parameters and the outcomes
\* of its own calls of func give them.
OwnState(r) ==
    /\ r.attempt = Len(r.sleeps)
    /\ \A i \in 1..Len(r.sleeps) : r.sleeps[i] = r.initial_delay * Pow2(i - 1)
    /\ r.attempt = (IF r.status = "running" \/ r.calls = <<>>
                    THEN Len(r.calls) ELSE Len(r.calls) - 1)
    /\ r.status = "sleeping" => r.delay = r.initial_delay * Pow2(r.attempt)
    /\ \A i \in 1..r.attempt : r.calls[i].kind = "OverloadedError"
    /\ r.max_retries >= 1 => Len(r.calls) <= r.max_retries

C16_PerInvocationState ==
    /\ OwnState(rs)
    /\ OwnState(other)
    /\ history # <<>> =>
          /\ rs.initial_delay = DefaultInitialDelay
          /\ rs.max_retries = DefaultMaxRetries
          /\ rs.status \in {"returned", "raised"} =>
                (Len(rs.calls) = DefaultMaxRetries \/ Last(rs.calls).kind # "OverloadedError")

C16_PerInvocationStep ==
    /\ rs' # rs => other' = other
    /\ other' # other => rs' = rs /\ history' = history
    /\ history' # history =>
          /\ rs'.attempt = 0 /\ rs'.calls = <<>> /\ rs'.sleeps = <<>>
          /\ rs'.status = "running"

\* C16: in any sequence or interleaving of retry_with_backoff invocations, each
\* invocation's attempt count, delay and sleeps are given by its own parameters and
\* the outcomes of its own calls; a step of one invocation changes nothing of the
\* other; an invocation made after another starts at attempt 0, sleeps first
\* initial_delay and has all max_retries attempts, however many the earlier used.
C16_RetryStateIsPerInvocation == []C16_PerInvocationState /\ [][C16_PerInvocationStep]_vars

C16_Witness ==
    /\ history # <<>>
    /\ Len(history[1].calls) = 3 /\ history[1].sleeps = <<2, 4>>
    /\ rs.status = "raised" /\ Len(rs.calls) = 3 /\ rs.sleeps = <<1, 2>>
    /\ other.status = "sleeping" /\ other.attempt = 1 /\ other.delay = 2

====
